---- MODULE Spec2Model ----
(***************************************************************************)
(* Model of the refactor agent's structured-output pipeline:               *)
(*   refactor_file       (src/refactor_cli.py)                             *)
(*   run_refactor_agent  (src/agent/runner.py)                             *)
(* Text is modelled character by character.  A character is an atom: a     *)
(* one-letter string for letters, digits and punctuation, and a named atom *)
(* for the characters that cannot be written in a string literal:          *)
(*   "bt" backtick, "dq" double quote, "bs" backslash, "nl" newline.       *)
(* A Python str is a sequence of characters.                               *)
(***************************************************************************)
EXTENDS Integers, Sequences, FiniteSets, TLC

BT == "bt"
DQ == "dq"
BS == "bs"
NL == "nl"
SP == " "

\* The two markers the extraction code searches for.
Fence == <<BT, BT, BT>>
FenceJson == <<BT, BT, BT, "j", "s", "o", "n">>

\* The characters str.strip() removes (those of them that occur in the model).
Whitespace == {SP, NL}

SetMin(S) == CHOOSE x \in S : \A y \in S : x <= y
SetMax(S) == CHOOSE x \in S : \A y \in S : x >= y

(***************************************************************************)
(* Python str methods, with Python's 0-based offsets.                      *)
(***************************************************************************)
\* pat occurs in s at 0-based offset i
StartsAt(s, pat, i) ==
    /\ i >= 0
    /\ i + Len(pat) <= Len(s)
    /\ \A k \in 1..Len(pat) : s[i + k] = pat[k]

Occurrences(s, pat) == {i \in 0..(Len(s) - Len(pat)) : StartsAt(s, pat, i)}

\* str.find: offset of the first occurrence, -1 when there is none
find(s, pat) == IF Occurrences(s, pat) = {} THEN -1 ELSE SetMin(Occurrences(s, pat))

\* str.rfind: offset of the last occurrence, -1 when there is none
rfind(s, pat) == IF Occurrences(s, pat) = {} THEN -1 ELSE SetMax(Occurrences(s, pat))

\* a slice bound as Python clamps it: negative bounds count from the end
SliceBound(n, len) == IF n < 0 THEN (IF len + n < 0 THEN 0 ELSE len + n)
                      ELSE (IF n > len THEN len ELSE n)

\* s[a:b]
PySlice(s, a, b) ==
    LET lo == SliceBound(a, Len(s))
        hi == SliceBound(b, Len(s))
    IN IF lo >= hi THEN <<>> ELSE SubSeq(s, lo + 1, hi)

\* the offsets str.replace takes: occurrences from the left, none overlapping
\* one already taken
RECURSIVE Matches(_, _, _)
Matches(occ, from, len) ==
    IF {i \in occ : i >= from} = {} THEN {}
    ELSE {SetMin({i \in occ : i >= from})}
             \cup Matches(occ, SetMin({i \in occ : i >= from}) + len, len)

\* s.replace(pat, ''): every non-overlapping occurrence, left to right
replace(s, pat) ==
    LET taken == Matches(Occurrences(s, pat), 0, Len(pat))
        indexed == [i \in 1..Len(s) |-> <<i, s[i]>>]
        Kept(e) == ~\E m \in taken : m < e[1] /\ e[1] <= m + Len(pat)
        kept == SelectSeq(indexed, Kept)
    IN [i \in 1..Len(kept) |-> kept[i][2]]

RECURSIVE lstrip(_)
lstrip(s) == IF s # <<>> /\ Head(s) \in Whitespace THEN lstrip(Tail(s)) ELSE s

RECURSIVE rstrip(_)
rstrip(s) == IF s # <<>> /\ s[Len(s)] \in Whitespace THEN rstrip(SubSeq(s, 1, Len(s) - 1)) ELSE s

\* s.strip()
strip(s) == rstrip(lstrip(s))

LowerChar(c) == IF c = "Y" THEN "y" ELSE IF c = "E" THEN "e" ELSE IF c = "S" THEN "s"
                ELSE IF c = "N" THEN "n" ELSE IF c = "O" THEN "o" ELSE c

\* s.lower(), on the letters the model's answers use
lower(s) == [i \in 1..Len(s) |-> LowerChar(s[i])]

(***************************************************************************)
(* JSON values, as json.loads builds them.  One record shape for every     *)
(* kind: k the kind, s the text of a string or number, m the members of an *)
(* object (a dict, in insertion order) or the elements of a list.          *)
(***************************************************************************)
JStr(s) == [k |-> "str", s |-> s, m |-> <<>>]
JNum(s) == [k |-> "num", s |-> s, m |-> <<>>]
JNull == [k |-> "null", s |-> <<>>, m |-> <<>>]
JBool(s) == [k |-> "bool", s |-> s, m |-> <<>>]
JObj(m) == [k |-> "obj", s |-> <<>>, m |-> m]
JArr(m) == [k |-> "arr", s |-> <<>>, m |-> m]
Member(key, val) == [key |-> key, val |-> val]

\* dict: key in d
HasKey(d, key) == d.k = "obj" /\ \E i \in 1..Len(d.m) : d.m[i].key = key

\* dict: d[key]
GetKey(d, key) == d.m[CHOOSE i \in 1..Len(d.m) : d.m[i].key = key].val

\* dict: d[key] = val; a key already present keeps its place and takes the new value
DictSet(m, key, val) ==
    IF \E i \in 1..Len(m) : m[i].key = key
    THEN [i \in 1..Len(m) |-> IF m[i].key = key THEN Member(key, val) ELSE m[i]]
    ELSE Append(m, Member(key, val))

Digits == {"0", "1", "2", "3", "4", "5", "6", "7", "8", "9"}
LitNull == <<"n", "u", "l", "l">>
LitTrue == <<"t", "r", "u", "e">>
LitFalse == <<"f", "a", "l", "s", "e">>

ParseFail == [ok |-> FALSE, val |-> JNull, pos |-> 0]
ParseOk(v, p) == [ok |-> TRUE, val |-> v, pos |-> p]

\* positions below are 1-based indexes into s
RECURSIVE SkipWs(_, _)
SkipWs(s, i) == IF i <= Len(s) /\ s[i] \in Whitespace THEN SkipWs(s, i + 1) ELSE i

RECURSIVE ScanDigits(_, _)
ScanDigits(s, i) == IF i <= Len(s) /\ s[i] \in Digits THEN ScanDigits(s, i + 1) ELSE i

\* the body of a string, from just after its opening quote; val is the decoded text
RECURSIVE ScanString(_, _, _)
ScanString(s, i, acc) ==
    IF i > Len(s) THEN ParseFail
    ELSE IF s[i] = DQ THEN ParseOk(acc, i + 1)
    ELSE IF s[i] = BS THEN
        IF i + 1 > Len(s) THEN ParseFail
        ELSE IF s[i + 1] \in {DQ, BS, "/"} THEN ScanString(s, i + 2, Append(acc, s[i + 1]))
        ELSE IF s[i + 1] = "n" THEN ScanString(s, i + 2, Append(acc, NL))
        ELSE ParseFail
    ELSE IF s[i] = NL THEN ParseFail
    ELSE ScanString(s, i + 1, Append(acc, s[i]))

RECURSIVE ParseValue(_, _), ParseMembers(_, _, _), ParseElements(_, _, _)
ParseValue(s, i0) ==
    LET i == SkipWs(s, i0) IN
    IF i > Len(s) THEN ParseFail
    ELSE IF s[i] = DQ THEN
        LET r == ScanString(s, i + 1, <<>>) IN
        IF r.ok THEN ParseOk(JStr(r.val), r.pos) ELSE ParseFail
    ELSE IF s[i] = "{" THEN
        LET j == SkipWs(s, i + 1) IN
        IF j <= Len(s) /\ s[j] = "}" THEN ParseOk(JObj(<<>>), j + 1)
        ELSE ParseMembers(s, j, <<>>)
    ELSE IF s[i] = "[" THEN
        LET j == SkipWs(s, i + 1) IN
        IF j <= Len(s) /\ s[j] = "]" THEN ParseOk(JArr(<<>>), j + 1)
        ELSE ParseElements(s, j, <<>>)
    ELSE IF StartsAt(s, LitNull, i - 1) THEN ParseOk(JNull, i + 4)
    ELSE IF StartsAt(s, LitTrue, i - 1) THEN ParseOk(JBool(LitTrue), i + 4)
    ELSE IF StartsAt(s, LitFalse, i - 1) THEN ParseOk(JBool(LitFalse), i + 5)
    ELSE IF s[i] = "0" THEN ParseOk(JNum(<<"0">>), i + 1)
    ELSE IF s[i] \in Digits THEN
        ParseOk(JNum(SubSeq(s, i, ScanDigits(s, i) - 1)), ScanDigits(s, i))
    ELSE ParseFail

\* the members of an object, from the first character of a key
ParseMembers(s, i, acc) ==
    IF i > Len(s) \/ s[i] # DQ THEN ParseFail
    ELSE
        LET key == ScanString(s, i + 1, <<>>) IN
        IF ~key.ok THEN ParseFail
        ELSE
            LET c == SkipWs(s, key.pos) IN
            IF c > Len(s) \/ s[c] # ":" THEN ParseFail
            ELSE
                LET v == ParseValue(s, c + 1) IN
                IF ~v.ok THEN ParseFail
                ELSE
                    LET e == SkipWs(s, v.pos) IN
                    IF e > Len(s) THEN ParseFail
                    ELSE IF s[e] = "}" THEN ParseOk(JObj(DictSet(acc, key.val, v.val)), e + 1)
                    ELSE IF s[e] = ","
                        THEN ParseMembers(s, SkipWs(s, e + 1), DictSet(acc, key.val, v.val))
                    ELSE ParseFail

\* the elements of a list, from the first character of an element
ParseElements(s, i, acc) ==
    LET v == ParseValue(s, i) IN
    IF ~v.ok THEN ParseFail
    ELSE
        LET e == SkipWs(s, v.pos) IN
        IF e > Len(s) THEN ParseFail
        ELSE IF s[e] = "]" THEN ParseOk(JArr(Append(acc, Member(<<>>, v.val))), e + 1)
        ELSE IF s[e] = "," THEN ParseElements(s, e + 1, Append(acc, Member(<<>>, v.val)))
        ELSE ParseFail

\* a parser that takes the empty text for null instead of raising
loads_empty_is_null(s) ==
    LET r == ParseValue(s, 1) IN
    IF s = <<>> THEN [ok |-> TRUE, val |-> JNull]
    ELSE IF r.ok /\ SkipWs(s, r.pos) > Len(s) THEN [ok |-> TRUE, val |-> r.val]
    ELSE [ok |-> FALSE, val |-> JNull]

\* json.loads(s): ok is FALSE where Python raises JSONDecodeError
loads(s) ==
    LET r == ParseValue(s, 1) IN
    IF r.ok /\ SkipWs(s, r.pos) > Len(s) THEN [ok |-> TRUE, val |-> r.val]
    ELSE [ok |-> FALSE, val |-> JNull]

\* one character of a string as json.dumps(ensure_ascii=False) writes it
EscapeChar(c) == IF c = DQ THEN <<BS, DQ>>
                 ELSE IF c = BS THEN <<BS, BS>>
                 ELSE IF c = NL THEN <<BS, "n">>
                 ELSE <<c>>

RECURSIVE EscapeString(_)
EscapeString(s) == IF s = <<>> THEN <<>> ELSE EscapeChar(Head(s)) \o EscapeString(Tail(s))

Quoted(s) == <<DQ>> \o EscapeString(s) \o <<DQ>>

\* json.dumps(v) with the default separators ", " and ": "
RECURSIVE dumps(_), DumpMembers(_, _), DumpElements(_, _)
dumps(v) ==
    IF v.k = "str" THEN Quoted(v.s)
    ELSE IF v.k = "num" THEN v.s
    ELSE IF v.k = "null" THEN LitNull
    ELSE IF v.k = "bool" THEN v.s
    ELSE IF v.k = "obj" THEN <<"{">> \o DumpMembers(v.m, 1) \o <<"}">>
    ELSE <<"[">> \o DumpElements(v.m, 1) \o <<"]">>

DumpMembers(m, i) ==
    IF i > Len(m) THEN <<>>
    ELSE (IF i > 1 THEN <<",", SP>> ELSE <<>>)
         \o Quoted(m[i].key) \o <<":", SP>> \o dumps(m[i].val) \o DumpMembers(m, i + 1)

DumpElements(m, i) ==
    IF i > Len(m) THEN <<>>
    ELSE (IF i > 1 THEN <<",", SP>> ELSE <<>>) \o dumps(m[i].val) \o DumpElements(m, i + 1)

(***************************************************************************)
(* Extraction of the JSON text from the captured agent output.             *)
(***************************************************************************)
\* json_start = output.find('```json'); if -1: output.find('{')
json_start(output) ==
    IF find(output, FenceJson) # -1 THEN find(output, FenceJson) ELSE find(output, <<"{">>)

\* json_end = output.rfind('```'); if -1: output.rfind('}') + 1
json_end(output) ==
    IF rfind(output, Fence) # -1 THEN rfind(output, Fence) ELSE rfind(output, <<"}">>) + 1

\* output[json_start:json_end].replace('```json', '').replace('```', '').strip()
json_str(output) ==
    strip(replace(replace(PySlice(output, json_start(output), json_end(output)), FenceJson), Fence))

(***************************************************************************)
(* Python operations on a parsed value that raise for some kinds of value. *)
(***************************************************************************)
\* key in v raises TypeError for a value that is not a container
InRaises(v) == v.k \in {"num", "null", "bool"}

\* key in v: a dict key, a list element, a substring of a str
In(v, key) ==
    IF v.k = "obj" THEN HasKey(v, key)
    ELSE IF v.k = "arr" THEN \E i \in 1..Len(v.m) : v.m[i].val = JStr(key)
    ELSE IF v.k = "str" THEN Occurrences(v.s, key) # {}
    ELSE FALSE

\* v[key] raises KeyError (dict without the key) or TypeError (not a dict)
SubscriptRaises(v, key) == ~HasKey(v, key)

\* len(v) raises TypeError
LenRaises(v) == v.k \in {"num", "null", "bool"}

\* v.items() raises AttributeError
ItemsRaises(v) == v.k # "obj"

\* f.write(v) raises TypeError
WriteRaises(v) == v.k # "str"

K_refactored_main == <<"r", "e", "f", "a", "c", "t", "o", "r", "e", "d", "_", "m", "a", "i", "n">>
K_backup_file == <<"b", "a", "c", "k", "u", "p", "_", "f", "i", "l", "e">>
K_utility_modules == <<"u", "t", "i", "l", "i", "t", "y", "_", "m", "o", "d", "u", "l", "e", "s">>

(***************************************************************************)
(* Paths.  A path is a sequence of segments from the filesystem root, each *)
(* segment a str.  The repository sits at the root: backend/main.py is the *)
(* file under refactor, and /etc exists beside it.                         *)
(***************************************************************************)
Seg_backend == <<"b", "a", "c", "k", "e", "n", "d">>
Seg_main_py == <<"m", "a", "i", "n", ".", "p", "y">>
Seg_utils == <<"u", "t", "i", "l", "s">>
Seg_etc == <<"e", "t", "c">>
DotDot == <<".", ".">>
Dot == <<".">>

\* file_path of refactor_file; BACKEND_FILE of run_refactor_agent
BACKEND_FILE == <<Seg_backend, Seg_main_py>>

Parent(path) == IF path = <<>> THEN <<>> ELSE SubSeq(path, 1, Len(path) - 1)

\* name.split('/')
RECURSIVE SplitPath(_, _)
SplitPath(name, acc) ==
    IF name = <<>> THEN <<acc>>
    ELSE IF Head(name) = "/" THEN <<acc>> \o SplitPath(Tail(name), <<>>)
    ELSE SplitPath(Tail(name), Append(acc, Head(name)))

\* PurePath.suffix of a file name: from its last dot on, '' without one
Suffix(name) ==
    LET dots == {i \in 2..Len(name) : name[i] = "."} IN
    IF dots = {} \/ SetMax(dots) = Len(name) THEN <<>>
    ELSE SubSeq(name, SetMax(dots), Len(name))

\* Path.with_suffix(suffix)
with_suffix(path, suffix) ==
    LET name == path[Len(path)]
        stem == SubSeq(name, 1, Len(name) - Len(Suffix(name)))
    IN Append(Parent(path), stem \o suffix)

DotBackup == <<".", "b", "a", "c", "k", "u", "p">>

\* refactor_file: file_path.with_suffix(f"{file_path.suffix}.backup")
backup_path ==
    with_suffix(BACKEND_FILE, Suffix(BACKEND_FILE[Len(BACKEND_FILE)]) \o DotBackup)

\* run_refactor_agent: Path(BACKEND_FILE).with_suffix('.backup')
backup_file == with_suffix(BACKEND_FILE, DotBackup)

\* file_path.parent / "utils"
utils_dir == Append(Parent(BACKEND_FILE), Seg_utils)

UtilsPrefix == <<"u", "t", "i", "l", "s", "/">>

\* clean_name = util_name.replace('utils/', '')
clean_name(util_name) == replace(util_name, UtilsPrefix)

\* The file the operating system reaches for base / name: an absolute name
\* replaces base, '.' and '' segments are skipped, '..' steps to the parent,
\* and every directory on the way has to exist (ok is FALSE where open raises
\* FileNotFoundError).
RECURSIVE Walk(_, _, _)
Walk(cur, segs, ds) ==
    IF segs = <<>> THEN [ok |-> TRUE, path |-> cur]
    ELSE IF Head(segs) \in {<<>>, Dot} THEN Walk(cur, Tail(segs), ds)
    ELSE IF Head(segs) = DotDot THEN Walk(Parent(cur), Tail(segs), ds)
    ELSE IF Len(segs) = 1 THEN [ok |-> TRUE, path |-> Append(cur, Head(segs))]
    ELSE IF Append(cur, Head(segs)) \in ds THEN Walk(Append(cur, Head(segs)), Tail(segs), ds)
    ELSE [ok |-> FALSE, path |-> <<>>]

\* util_file = utils_dir / clean_name, as open() resolves it
util_file(util_name, ds) ==
    IF clean_name(util_name) # <<>> /\ Head(clean_name(util_name)) = "/"
    THEN Walk(<<>>, SplitPath(clean_name(util_name), <<>>), ds)
    ELSE Walk(utils_dir, SplitPath(clean_name(util_name), <<>>), ds)

\* open(path, "w") raises: FileNotFoundError, or IsADirectoryError
OpenRaises(target, ds) == ~target.ok \/ target.path \in ds

\* the files after path has been written with content
WriteFile(fs, path, content) ==
    [p \in (DOMAIN fs) \cup {path} |-> IF p = path THEN content ELSE fs[p]]

IsDescendant(path, root) ==
    Len(path) > Len(root) /\ SubSeq(path, 1, Len(root)) = root

(***************************************************************************)
(* The inputs of a run: what the file under refactor holds, what the agent *)
(* prints, and what the user types at the prompt.                          *)
(***************************************************************************)
\* the content of backend/main.py before the first run
OriginalSource == <<"o", "l", "d">>

NewMain == <<"n", "e", "w">>
OldCopy == <<"b", "a", "k">>
UtilCode == <<"x", "=", "1">>
Name_io == <<"u", "t", "i", "l", "s", "/", "i", "o", ".", "p", "y">>
Name_text == <<"t", "e", "x", "t", ".", "p", "y">>
Name_helpers == <<"h", "e", "l", "p", "e", "r", "s", ".", "p", "y">>
Name_passwd == <<"u", "t", "i", "l", "s", "/", ".", ".", "/", ".", ".", "/", "e", "t", "c", "/", "p", "a", "s", "s", "w", "d">>
Name_abs == <<"/", "e", "t", "c", "/", "h", "o", "s", "t", "s">>
Name_nested == <<"s", "u", "b", "/", "a", ".", "p", "y">>

\* a complete payload: the three keys the prompt asks for
PayloadFull ==
    JObj(<<Member(K_refactored_main, JStr(NewMain)),
           Member(K_backup_file, JStr(OldCopy)),
           Member(K_utility_modules,
                  JObj(<<Member(Name_io, JStr(UtilCode)), Member(Name_text, JStr(UtilCode))>>))>>)

\* no 'refactored_main'
PayloadNoMain ==
    JObj(<<Member(K_backup_file, JStr(OldCopy)),
           Member(K_utility_modules, JObj(<<Member(Name_helpers, JStr(UtilCode))>>))>>)

\* only 'refactored_main'
PayloadMainOnly == JObj(<<Member(K_refactored_main, JStr(NewMain))>>)

\* a module name that climbs out of utils/, an absolute one, then a plain one
PayloadTraversal ==
    JObj(<<Member(K_refactored_main, JStr(NewMain)),
           Member(K_utility_modules,
                  JObj(<<Member(Name_passwd, JStr(UtilCode)), Member(Name_abs, JStr(UtilCode)),
                         Member(Name_text, JStr(UtilCode))>>))>>)

\* a module in a subdirectory that does not exist, then a plain one
PayloadNested ==
    JObj(<<Member(K_refactored_main, JStr(NewMain)),
           Member(K_utility_modules,
                  JObj(<<Member(Name_nested, JStr(UtilCode)), Member(Name_text, JStr(UtilCode))>>))>>)

\* 'utility_modules' is a list
PayloadUtilsList ==
    JObj(<<Member(K_refactored_main, JStr(NewMain)),
           Member(K_utility_modules, JArr(<<Member(<<>>, JStr(Name_text))>>))>>)

\* 'refactored_main' is null
PayloadMainNull == JObj(<<Member(K_refactored_main, JNull)>>)

\* valid JSON that is not an object
PayloadList == JArr(<<Member(<<>>, JNum(<<"1">>))>>)

Prose == <<"S", "u", "r", "e", ":">>
Closing == <<"D", "o", "n", "e", ".">>

\* the reply the prompt asks for: prose, the payload in a json fence, prose
Fenced(payload) ==
    Prose \o <<NL>> \o FenceJson \o <<NL>> \o dumps(payload) \o <<NL>> \o Fence \o <<NL>> \o Closing

\* the payload with no fence around it
Bare(payload) == Prose \o <<NL>> \o dumps(payload) \o <<NL>>

\* a second fenced block after the payload's
FencedThenExample(payload) ==
    Fenced(payload) \o <<NL>> \o Fence \o <<"p", "y">> \o <<NL>> \o UtilCode \o <<NL>> \o Fence

\* a reply cut off inside the payload
Truncated == Prose \o <<NL>> \o FenceJson \o <<NL>> \o <<"{", DQ, "r", "e", "f", "a", "c", "t", "o", "r", "e", "d", "_", "m", "a", "i", "n", DQ, ":", SP, DQ, "n", "e">>

\* what user.initiate_chat may print (captured_output / cap.output)
Transcripts ==
    { Fenced(PayloadFull), Fenced(PayloadNoMain), Fenced(PayloadMainOnly),
      Fenced(PayloadTraversal), Fenced(PayloadNested),
      Fenced(PayloadUtilsList), Fenced(PayloadMainNull), Fenced(PayloadList),
      Bare(PayloadFull), FencedThenExample(PayloadMainOnly), Truncated, Prose, <<>> }

\* what the user may type at input() (the line without its newline)
Answers == { <<"y">>, <<SP, "Y", "E", "S", SP>>, <<>>, <<"n">>, <<"y", "e">>, <<"y", "e", "s", "!">> }

(***************************************************************************)
(* State.                                                                  *)
(***************************************************************************)
VARIABLES
    files,              \* the filesystem's regular files: path -> content
    dirs,               \* the directories that exist
    logs,               \* the audit files under the refactor_logs directories
    now,                \* the minute datetime.now() gave when it was last read
    runs,               \* how many runs have ended
    pc,                 \* where the current run is
    run,                \* the current run: which program, and its mode flags
    original_content,   \* refactor_file: original_content; runner: source_code
    captured_output,    \* the captured transcript
    parsed_response,    \* refactor_file: parsed_response; runner: preview_dict
    util_idx,           \* position of the loop over utility_modules.items()
    answer,             \* what came back from input()
    result,             \* how the run ended: its return value and last message
    wrote,              \* history: the files this run has opened for writing
    tried,              \* history: the utility modules whose write was attempted
    start,              \* history: the filesystem as the run found it
    lab                 \* the extraction and parsing code applied to one input

vars == <<files, dirs, logs, now, runs, pc, run, original_content, captured_output,
          parsed_response, util_idx, answer, result, wrote, tried, start, lab>>

\* at most this many runs, one after the other
MaxRuns == 2
EtcPasswd == <<Seg_etc, <<"p", "a", "s", "s", "w", "d">>>>
PasswdContent == <<"r", "o", "o", "t">>

NoRun == [variant |-> "none", preview |-> FALSE, backup |-> FALSE]
NoAnswer == [given |-> FALSE, text |-> <<>>, interrupted |-> FALSE]
Pending == [ret |-> "pending", msg |-> "none"]
Event(path, kind, src) == [path |-> path, kind |-> kind, src |-> src]

\* no input on the bench
LabOff == [stage |-> "off", value |-> JNull, prefix |-> <<>>, suffix |-> <<>>, json |-> <<>>,
           transcript |-> <<>>, found |-> FALSE, text |-> <<>>,
           parsed |-> [ok |-> FALSE, val |-> JNull]]

\* the state before the first run
InitRuns ==
    /\ files = [p \in {BACKEND_FILE, EtcPasswd} |->
                   IF p = BACKEND_FILE THEN OriginalSource ELSE PasswdContent]
    /\ dirs = {<<>>, <<Seg_backend>>, <<Seg_etc>>}
    /\ logs = {}
    /\ now = 0
    /\ runs = 0
    /\ pc = "idle"
    /\ run = NoRun
    /\ original_content = <<>>
    /\ captured_output = <<>>
    /\ parsed_response = JNull
    /\ util_idx = 0
    /\ answer = NoAnswer
    /\ result = Pending
    /\ wrote = {}
    /\ tried = {}
    /\ start = [files |-> files, dirs |-> dirs, logs |-> logs]

Init == InitRuns /\ lab = LabOff

\* the run ends: what the function returns ("raised": an exception leaves it)
\* and the last message it printed
Return(ret, msg) ==
    /\ pc' = "done"
    /\ result' = [ret |-> ret, msg |-> msg]

\* timestamp = datetime.now().strftime("%Y-%m-%d_%H%M"): the minute of the
\* last reading, or a later one
Minutes == {now, now + 1}

\* with open(log_filename, "w") ...: json.dump(log_data, f): the audit files
\* after this one is written; one file per logs directory and timestamp.  Of
\* an entry's content the model keeps the metadata and which run wrote it.
log_refactor_output(initiator, timestamp) ==
    {l \in logs : ~(l.initiator = initiator /\ l.refactor_timestamp = timestamp)}
        \cup {[initiator |-> initiator, refactor_timestamp |-> timestamp,
               original_file |-> BACKEND_FILE, run |-> runs + 1]}

Begin(variant, preview, backup) ==
    /\ pc = "idle"
    /\ runs < MaxRuns
    /\ run' = [variant |-> variant, preview |-> preview, backup |-> backup]
    /\ original_content' = files[BACKEND_FILE]
    /\ start' = [files |-> files, dirs |-> dirs, logs |-> logs]
    /\ wrote' = {}
    /\ tried' = {}
    /\ answer' = NoAnswer
    /\ UNCHANGED <<files, dirs, logs, now, runs, captured_output, parsed_response, util_idx,
                   lab>>

(***************************************************************************)
(* refactor_file(file_path, suggestion_type, preview_only, backup)         *)
(***************************************************************************)
\* the display of the preview raises (and nothing has been applied yet)
CliPreviewRaises(parsed) ==
    \/ InRaises(parsed)
    \/ /\ In(parsed, K_refactored_main)
       /\ \/ SubscriptRaises(parsed, K_refactored_main)
          \/ LenRaises(GetKey(parsed, K_refactored_main))
    \/ /\ In(parsed, K_utility_modules)
       /\ \/ SubscriptRaises(parsed, K_utility_modules)
          \/ ItemsRaises(GetKey(parsed, K_utility_modules))
          \/ \E i \in 1..Len(GetKey(parsed, K_utility_modules).m) :
                 LenRaises(GetKey(parsed, K_utility_modules).m[i].val)

\* entry: the OPENAI_API_KEY check, then the read of the original file
CliStart ==
    \E preview_only \in BOOLEAN, backup \in BOOLEAN, api_key \in BOOLEAN :
        /\ Begin("cli", preview_only, backup)
        /\ IF ~api_key THEN Return("False", "no_api_key")
           ELSE /\ pc' = IF backup THEN "cli_backup_open" ELSE "cli_agent"
                /\ result' = Pending

\* a backup step that keeps the first backup: an existing file is left alone
CliBackupOnce ==
    /\ pc = "cli_backup_open"
    /\ IF backup_path \in DOMAIN files
       THEN pc' = "cli_agent" /\ UNCHANGED <<files, wrote>>
       ELSE /\ files' = WriteFile(files, backup_path, <<>>)
            /\ wrote' = wrote \cup {Event(backup_path, "backup", "original")}
            /\ pc' = "cli_backup_write"
    /\ UNCHANGED <<dirs, logs, now, runs, run, original_content, captured_output,
                   parsed_response, util_idx, answer, result, tried, start, lab>>

\* open(backup_path, "w")
CliBackupOpen ==
    /\ pc = "cli_backup_open"
    /\ files' = WriteFile(files, backup_path, <<>>)
    /\ wrote' = wrote \cup {Event(backup_path, "backup", "original")}
    /\ pc' = "cli_backup_write"
    /\ UNCHANGED <<dirs, logs, now, runs, run, original_content, captured_output,
                   parsed_response, util_idx, answer, result, tried, start, lab>>

\* f.write(original_content), and the file is closed
CliBackupWrite ==
    /\ pc = "cli_backup_write"
    /\ files' = WriteFile(files, backup_path, original_content)
    /\ pc' = "cli_agent"
    /\ UNCHANGED <<dirs, logs, now, runs, run, original_content, captured_output,
                   parsed_response, util_idx, answer, result, wrote, tried, start, lab>>

\* user.initiate_chat(...) under redirect_stdout
CliAgent ==
    /\ pc = "cli_agent"
    /\ \E t \in Transcripts : captured_output' = t
    /\ pc' = "cli_parse"
    /\ UNCHANGED <<files, dirs, logs, now, runs, run, original_content,
                   parsed_response, util_idx, answer, result, wrote, tried, start, lab>>

\* the agent call raises: except Exception
CliAgentRaises ==
    /\ pc = "cli_agent"
    /\ Return("False", "agent_error")
    /\ UNCHANGED <<files, dirs, logs, now, runs, run, original_content, captured_output,
                   parsed_response, util_idx, answer, wrote, tried, start, lab>>

\* the search for the block and json.loads
CliParse ==
    /\ pc = "cli_parse"
    /\ IF json_start(captured_output) = -1 \/ json_end(captured_output) = -1
       THEN Return("False", "no_json") /\ UNCHANGED parsed_response
       ELSE IF ~loads(json_str(captured_output)).ok
       THEN Return("False", "json_error") /\ UNCHANGED parsed_response
       ELSE /\ parsed_response' = loads(json_str(captured_output)).val
            /\ pc' = "cli_preview"
            /\ UNCHANGED result
    /\ UNCHANGED <<files, dirs, logs, now, runs, run, original_content, captured_output,
                   util_idx, answer, wrote, tried, start, lab>>

\* the preview, and the preview_only return
CliPreview ==
    /\ pc = "cli_preview"
    /\ IF CliPreviewRaises(parsed_response) THEN Return("False", "error")
       ELSE IF run.preview THEN Return("True", "preview_only")
       ELSE pc' = "cli_apply_open" /\ UNCHANGED result
    /\ UNCHANGED <<files, dirs, logs, now, runs, run, original_content, captured_output,
                   parsed_response, util_idx, answer, wrote, tried, start, lab>>

\* open(file_path, "w")
CliApplyOpen ==
    /\ pc = "cli_apply_open"
    /\ files' = WriteFile(files, BACKEND_FILE, <<>>)
    /\ wrote' = wrote \cup {Event(BACKEND_FILE, "target", "payload")}
    /\ pc' = "cli_apply_write"
    /\ UNCHANGED <<dirs, logs, now, runs, run, original_content, captured_output,
                   parsed_response, util_idx, answer, result, tried, start, lab>>

\* f.write(parsed_response['refactored_main'])
CliApplyWrite ==
    /\ pc = "cli_apply_write"
    /\ IF SubscriptRaises(parsed_response, K_refactored_main)
       THEN Return("False", "error") /\ UNCHANGED files
       ELSE IF WriteRaises(GetKey(parsed_response, K_refactored_main))
       THEN Return("False", "error") /\ UNCHANGED files
       ELSE /\ files' = WriteFile(files, BACKEND_FILE,
                                  GetKey(parsed_response, K_refactored_main).s)
            /\ pc' = "cli_log"
            /\ UNCHANGED result
    /\ UNCHANGED <<dirs, logs, now, runs, run, original_content, captured_output,
                   parsed_response, util_idx, answer, wrote, tried, start, lab>>

\* log_refactor_output(parsed_response, file_path, current_dir); where the
\* logs directory cannot be written, mkdir or open raises and except Exception
\* of refactor_file ends the run
CliLog ==
    /\ pc = "cli_log"
    /\ \E writable \in BOOLEAN :
        IF writable
        THEN /\ \E timestamp \in Minutes :
                  /\ now' = timestamp
                  /\ logs' = log_refactor_output("cli_called", timestamp)
             /\ pc' = "cli_utils"
             /\ UNCHANGED result
        ELSE /\ Return("False", "log_error")
             /\ UNCHANGED <<now, logs>>
    /\ UNCHANGED <<files, dirs, runs, run, original_content, captured_output,
                   parsed_response, util_idx, answer, wrote, tried, start, lab>>

\* if 'utility_modules' in parsed_response: utils_dir.mkdir(exist_ok=True)
CliUtilsDir ==
    /\ pc = "cli_utils"
    /\ IF ~HasKey(parsed_response, K_utility_modules)
       THEN Return("True", "applied") /\ UNCHANGED <<dirs, util_idx>>
       ELSE IF ItemsRaises(GetKey(parsed_response, K_utility_modules))
       THEN /\ Return("False", "error")
            /\ dirs' = dirs \cup {utils_dir}
            /\ UNCHANGED util_idx
       ELSE /\ dirs' = dirs \cup {utils_dir}
            /\ util_idx' = 1
            /\ pc' = "cli_util"
            /\ UNCHANGED result
    /\ UNCHANGED <<files, logs, now, runs, run, original_content, captured_output,
                   parsed_response, answer, wrote, tried, start, lab>>

\* one turn of the loop over utility_modules.items(): open, write
\* fail is how the run ends when the turn raises, done when the loop is over
UtilityTurn(here, fail, done) ==
    LET items == GetKey(parsed_response, K_utility_modules).m IN
    /\ pc = here
    /\ IF util_idx > Len(items)
       THEN /\ Return(done.ret, done.msg)
            /\ UNCHANGED <<files, wrote, tried, util_idx>>
       ELSE LET util_name == items[util_idx].key
                util_content == items[util_idx].val
                target == util_file(util_name, dirs)
            IN /\ tried' = tried \cup {util_idx}
               /\ IF OpenRaises(target, dirs)
                  THEN /\ Return(fail.ret, fail.msg)
                       /\ UNCHANGED <<files, wrote, util_idx>>
                  ELSE IF WriteRaises(util_content)
                  THEN /\ Return(fail.ret, fail.msg)
                       /\ files' = WriteFile(files, target.path, <<>>)
                       /\ wrote' = wrote \cup {Event(target.path, "util", "payload")}
                       /\ UNCHANGED util_idx
                  ELSE /\ files' = WriteFile(files, target.path, util_content.s)
                       /\ wrote' = wrote \cup {Event(target.path, "util", "payload")}
                       /\ util_idx' = util_idx + 1
                       /\ UNCHANGED <<pc, result>>
    /\ UNCHANGED <<dirs, logs, now, runs, run, original_content, captured_output,
                   parsed_response, answer, start, lab>>

CliUtil ==
    UtilityTurn("cli_util", [ret |-> "False", msg |-> "error"],
                [ret |-> "True", msg |-> "applied"])

(***************************************************************************)
(* run_refactor_agent()                                                    *)
(***************************************************************************)
\* the display of the preview raises (outside any try)
RunnerPreviewRaises(preview_dict) ==
    \/ ItemsRaises(preview_dict)
    \/ /\ HasKey(preview_dict, K_utility_modules)
       /\ ItemsRaises(GetKey(preview_dict, K_utility_modules))

\* a prompt that takes everything but a refusal for consent
accept_unless_no(text) == lower(strip(text)) \notin {<<"n">>, <<"n", "o">>}

\* accept = input(...).strip().lower(); accept in ['y', 'yes']
accept(text) == lower(strip(text)) \in {<<"y">>, <<"y", "e", "s">>}

\* no handler for KeyboardInterrupt: it leaves the function
KeyboardInterruptEscapes == [ret |-> "raised", msg |-> "exception"]

\* except KeyboardInterrupt: the message is printed and the function returns
KeyboardInterruptHandler == [ret |-> "None", msg |-> "cancelled"]

\* a write raises: inside the prompt's try it is caught by except Exception,
\* in the PREVIEW_MODE = False branch nothing catches it
RunnerWriteRaises ==
    IF answer.given THEN [ret |-> "None", msg |-> "error_applying"]
    ELSE [ret |-> "raised", msg |-> "exception"]

\* entry: the read of BACKEND_FILE; PREVIEW_MODE is the module's flag
RunnerStart ==
    \E PREVIEW_MODE \in BOOLEAN :
        /\ Begin("runner", PREVIEW_MODE, FALSE)
        /\ pc' = "r_agent"
        /\ result' = Pending

\* user.initiate_chat(...) under CaptureUserOutput
RunnerAgent ==
    /\ pc = "r_agent"
    /\ \E t \in Transcripts : captured_output' = t
    /\ pc' = "r_parse"
    /\ UNCHANGED <<files, dirs, logs, now, runs, run, original_content,
                   parsed_response, util_idx, answer, result, wrote, tried, start, lab>>

\* the agent call raises: nothing catches it
RunnerAgentRaises ==
    /\ pc = "r_agent"
    /\ Return("raised", "agent_exception")
    /\ UNCHANGED <<files, dirs, logs, now, runs, run, original_content, captured_output,
                   parsed_response, util_idx, answer, wrote, tried, start, lab>>

\* the search for the block and json.loads, under except Exception
RunnerParse ==
    /\ pc = "r_parse"
    /\ IF ~loads(json_str(captured_output)).ok
       THEN Return("None", "parse_failed") /\ UNCHANGED parsed_response
       ELSE /\ parsed_response' = loads(json_str(captured_output)).val
            /\ pc' = "r_preview"
            /\ UNCHANGED result
    /\ UNCHANGED <<files, dirs, logs, now, runs, run, original_content, captured_output,
                   util_idx, answer, wrote, tried, start, lab>>

\* the display of the preview
RunnerPreview ==
    /\ pc = "r_preview"
    /\ IF RunnerPreviewRaises(parsed_response) THEN Return("raised", "exception")
       ELSE pc' = "r_log" /\ UNCHANGED result
    /\ UNCHANGED <<files, dirs, logs, now, runs, run, original_content, captured_output,
                   parsed_response, util_idx, answer, wrote, tried, start, lab>>

\* log_refactor_output(preview_dict, ...), then the PREVIEW_MODE branch; where
\* the logs directory cannot be written the exception leaves the function
RunnerLog ==
    /\ pc = "r_log"
    /\ \E writable \in BOOLEAN :
        IF writable
        THEN /\ \E timestamp \in Minutes :
                  /\ now' = timestamp
                  /\ logs' = log_refactor_output("runner_called", timestamp)
             /\ pc' = IF run.preview THEN "r_prompt" ELSE "r_main"
             /\ UNCHANGED result
        ELSE /\ Return("raised", "log_error")
             /\ UNCHANGED <<now, logs>>
    /\ UNCHANGED <<files, dirs, runs, run, original_content, captured_output,
                   parsed_response, util_idx, answer, wrote, tried, start, lab>>

\* input(...) returns
RunnerPrompt ==
    /\ pc = "r_prompt"
    /\ \E text \in Answers :
        /\ answer' = [given |-> TRUE, text |-> text, interrupted |-> FALSE]
        /\ IF accept(text) THEN pc' = "r_main" /\ UNCHANGED result
           ELSE Return("None", "not_applied")
    /\ UNCHANGED <<files, dirs, logs, now, runs, run, original_content, captured_output,
                   parsed_response, util_idx, wrote, tried, start, lab>>

\* Ctrl-C while input(...) waits
RunnerInterrupt ==
    /\ pc = "r_prompt"
    /\ answer' = [given |-> FALSE, text |-> <<>>, interrupted |-> TRUE]
    /\ Return(KeyboardInterruptHandler.ret, KeyboardInterruptHandler.msg)
    /\ UNCHANGED <<files, dirs, logs, now, runs, run, original_content, captured_output,
                   parsed_response, util_idx, wrote, tried, start, lab>>

\* if 'refactored_main' in preview_dict: open(BACKEND_FILE, "w")
RunnerMainOpen ==
    /\ pc = "r_main"
    /\ IF ~HasKey(parsed_response, K_refactored_main)
       THEN pc' = "r_backup" /\ UNCHANGED <<files, wrote>>
       ELSE /\ files' = WriteFile(files, BACKEND_FILE, <<>>)
            /\ wrote' = wrote \cup {Event(BACKEND_FILE, "target", "payload")}
            /\ pc' = "r_main_write"
    /\ UNCHANGED <<dirs, logs, now, runs, run, original_content, captured_output,
                   parsed_response, util_idx, answer, result, tried, start, lab>>

\* f.write(preview_dict['refactored_main'])
RunnerMainWrite ==
    /\ pc = "r_main_write"
    /\ IF WriteRaises(GetKey(parsed_response, K_refactored_main))
       THEN Return(RunnerWriteRaises.ret, RunnerWriteRaises.msg) /\ UNCHANGED files
       ELSE /\ files' = WriteFile(files, BACKEND_FILE,
                                  GetKey(parsed_response, K_refactored_main).s)
            /\ pc' = "r_backup"
            /\ UNCHANGED result
    /\ UNCHANGED <<dirs, logs, now, runs, run, original_content, captured_output,
                   parsed_response, util_idx, answer, wrote, tried, start, lab>>

\* if 'backup_file' in preview_dict: open(backup_file, "w")
RunnerBackupOpen ==
    /\ pc = "r_backup"
    /\ IF ~HasKey(parsed_response, K_backup_file)
       THEN pc' = "r_utils" /\ UNCHANGED <<files, wrote>>
       ELSE /\ files' = WriteFile(files, backup_file, <<>>)
            /\ wrote' = wrote \cup {Event(backup_file, "backup", "payload")}
            /\ pc' = "r_backup_write"
    /\ UNCHANGED <<dirs, logs, now, runs, run, original_content, captured_output,
                   parsed_response, util_idx, answer, result, tried, start, lab>>

\* f.write(preview_dict['backup_file'])
RunnerBackupWrite ==
    /\ pc = "r_backup_write"
    /\ IF WriteRaises(GetKey(parsed_response, K_backup_file))
       THEN Return(RunnerWriteRaises.ret, RunnerWriteRaises.msg) /\ UNCHANGED files
       ELSE /\ files' = WriteFile(files, backup_file, GetKey(parsed_response, K_backup_file).s)
            /\ pc' = "r_utils"
            /\ UNCHANGED result
    /\ UNCHANGED <<dirs, logs, now, runs, run, original_content, captured_output,
                   parsed_response, util_idx, answer, wrote, tried, start, lab>>

\* if 'utility_modules' in preview_dict: utils_dir.mkdir(exist_ok=True)
RunnerUtilsDir ==
    /\ pc = "r_utils"
    /\ IF ~HasKey(parsed_response, K_utility_modules)
       THEN Return("None", "complete") /\ UNCHANGED <<dirs, util_idx>>
       ELSE /\ dirs' = dirs \cup {utils_dir}
            /\ util_idx' = 1
            /\ pc' = "r_util"
            /\ UNCHANGED result
    /\ UNCHANGED <<files, logs, now, runs, run, original_content, captured_output,
                   parsed_response, answer, wrote, tried, start, lab>>

RunnerUtil ==
    UtilityTurn("r_util", RunnerWriteRaises, [ret |-> "None", msg |-> "complete"])

(***************************************************************************)
(* Between runs.                                                           *)
(***************************************************************************)
\* the function has returned (or raised); the next run may start
Finish ==
    /\ pc = "done"
    /\ pc' = "idle"
    /\ runs' = runs + 1
    /\ run' = NoRun
    /\ original_content' = <<>>
    /\ captured_output' = <<>>
    /\ parsed_response' = JNull
    /\ util_idx' = 0
    /\ answer' = NoAnswer
    /\ result' = Pending
    /\ wrote' = {}
    /\ tried' = {}
    /\ start' = [files |-> files, dirs |-> dirs, logs |-> logs]
    /\ UNCHANGED <<files, dirs, logs, now, lab>>

Next ==
    \/ CliStart \/ CliBackupOpen \/ CliBackupWrite \/ CliAgent \/ CliAgentRaises
    \/ CliParse \/ CliPreview \/ CliApplyOpen \/ CliApplyWrite \/ CliLog
    \/ CliUtilsDir \/ CliUtil
    \/ RunnerStart \/ RunnerAgent \/ RunnerAgentRaises \/ RunnerParse \/ RunnerPreview
    \/ RunnerLog \/ RunnerPrompt \/ RunnerInterrupt \/ RunnerMainOpen \/ RunnerMainWrite
    \/ RunnerBackupOpen \/ RunnerBackupWrite \/ RunnerUtilsDir \/ RunnerUtil
    \/ Finish

Spec == Init /\ [][Next]_vars

(***************************************************************************)
(* The extraction and parsing code on its own: a payload is written as     *)
(* JSON text, set in a json fence between some text, and handed to the     *)
(* code of refactor_file lines 139-149 (the same lines as runner.py        *)
(* 106-115 and api/main.py 188-198).                                       *)
(***************************************************************************)
MainTexts ==
    { NewMain, <<"{", "x", "}">>, <<"a", DQ, "b", BS, "c", NL, "d">>, <<"a", BT, BT, BT, "b">>, <<BT, BT, BT, "j", "s", "o", "n">>, <<BT, "x", BT>> }

ModuleMaps ==
    { <<>>, <<Member(Name_io, JStr(UtilCode))>>,
      <<Member(Name_text, JStr(<<BT, BT, BT>>)), Member(Name_helpers, JStr(<<"}">>))>> }

\* a RefactorResult in the payload's form, with or without 'backup_file'
Result(main, with_backup, modules) ==
    JObj(<<Member(K_refactored_main, JStr(main))>>
         \o (IF with_backup THEN <<Member(K_backup_file, JStr(OldCopy))>> ELSE <<>>)
         \o <<Member(K_utility_modules, JObj(modules))>>)

Results ==
    {Result(main, with_backup, modules) :
        main \in MainTexts, with_backup \in BOOLEAN, modules \in ModuleMaps}

PyBlock == Fence \o <<"p", "y">> \o <<NL>> \o UtilCode \o <<NL>> \o Fence

\* what may stand before the json block, and after it
Prefixes == { <<>>, Prose \o <<NL>>, PyBlock \o <<NL>> }
Suffixes == { <<>>, <<NL>> \o Closing, <<NL>> \o PyBlock, <<NL>> \o <<"{", "o", "k", "}">> }

InitText ==
    /\ InitRuns
    /\ \E value \in Results, prefix \in Prefixes, suffix \in Suffixes :
        lab = [LabOff EXCEPT !.stage = "input", !.value = value,
                             !.prefix = prefix, !.suffix = suffix]

\* json.dumps(value)
TextSerialize ==
    /\ lab.stage = "input"
    /\ lab' = [lab EXCEPT !.stage = "serialized", !.json = dumps(lab.value)]
    /\ UNCHANGED <<files, dirs, logs, now, runs, pc, run, original_content, captured_output,
                   parsed_response, util_idx, answer, result, wrote, tried, start>>

\* the reply: the text in a json fence, each fence on a line of its own
TextEmbed ==
    /\ lab.stage = "serialized"
    /\ lab' = [lab EXCEPT !.stage = "embedded",
                          !.transcript = lab.prefix \o FenceJson \o <<NL>> \o lab.json
                                             \o <<NL>> \o Fence \o lab.suffix]
    /\ UNCHANGED <<files, dirs, logs, now, runs, pc, run, original_content, captured_output,
                   parsed_response, util_idx, answer, result, wrote, tried, start>>

\* json_start, json_end, the test of both, json_str
TextExtract ==
    /\ lab.stage = "embedded"
    /\ lab' = [lab EXCEPT !.stage = "extracted",
                          !.found = json_start(lab.transcript) # -1
                                        /\ json_end(lab.transcript) # -1,
                          !.text = json_str(lab.transcript)]
    /\ UNCHANGED <<files, dirs, logs, now, runs, pc, run, original_content, captured_output,
                   parsed_response, util_idx, answer, result, wrote, tried, start>>

\* json.loads(json_str)
TextParse ==
    /\ lab.stage = "extracted"
    /\ lab.found
    /\ lab' = [lab EXCEPT !.stage = "parsed", !.parsed = loads(lab.text)]
    /\ UNCHANGED <<files, dirs, logs, now, runs, pc, run, original_content, captured_output,
                   parsed_response, util_idx, answer, result, wrote, tried, start>>

SpecText == InitText /\ [][TextSerialize \/ TextEmbed \/ TextExtract \/ TextParse]_vars

(***************************************************************************)
(* The naming of the utility files on its own: two names of one            *)
(* utility_modules mapping go through lines 185-187 of refactor_file (the  *)
(* same lines as runner.py 161-163 and 198-200), utils_dir existing.       *)
(***************************************************************************)
\* module names an agent may give: with the 'utils/' hint, without it, with
\* 'utils/' further inside, with directories, climbing, absolute
Names ==
    { Name_io, Name_text, Name_passwd, Name_abs, Name_nested,
      <<"i", "o", ".", "p", "y">>,
      <<"m", "y", "u", "t", "i", "l", "s", "/", "a", ".", "p", "y">>,
      <<"m", "y", "a", ".", "p", "y">>,
      UtilsPrefix \o UtilsPrefix \o Name_text,
      UtilsPrefix \o Name_nested,
      <<"u", "t", "i", "l", "s">>,
      UtilsPrefix }

\* the keys of a dict are distinct
InitNames ==
    /\ InitRuns
    /\ \E first \in Names : \E second \in Names \ {first} :
        lab = [stage |-> "named", util_name |-> <<first, second>>,
               clean_name |-> <<>>, util_file |-> <<>>]

\* clean_name = util_name.replace('utils/', '')
NameClean ==
    /\ lab.stage = "named"
    /\ lab' = [lab EXCEPT !.stage = "cleaned",
                          !.clean_name = [i \in 1..2 |-> clean_name(lab.util_name[i])]]
    /\ UNCHANGED <<files, dirs, logs, now, runs, pc, run, original_content, captured_output,
                   parsed_response, util_idx, answer, result, wrote, tried, start>>

\* util_file = utils_dir / clean_name, as open(util_file, "w") resolves it
NameOpen ==
    /\ lab.stage = "cleaned"
    /\ lab' = [lab EXCEPT !.stage = "opened",
                          !.util_file = [i \in 1..2 |->
                              util_file(lab.util_name[i], dirs \cup {utils_dir})]]
    /\ UNCHANGED <<files, dirs, logs, now, runs, pc, run, original_content, captured_output,
                   parsed_response, util_idx, answer, result, wrote, tried, start>>

SpecNames == InitNames /\ [][NameClean \/ NameOpen]_vars

(***************************************************************************)
(* test_directory_structure(): the run that writes a timestamped tree      *)
(* test_refactor_<timestamp>/{before,after,utils} under the working        *)
(* directory.  The file as committed has a print at line 172 indented      *)
(* under a closed with and does not compile; the model takes that print at *)
(* the indentation of line 170, where it changes no state.  In this        *)
(* specification now counts seconds.                                       *)
(***************************************************************************)
\* "%Y-%m-%d_%H%M" against "%Y%m%d_%H%M%S": the seconds of one minute
SecondsPerMinute == 60

\* refactor_dir = Path(f"test_refactor_{timestamp}")
refactor_dir(timestamp) ==
    << <<"t", "e", "s", "t", "_", "r", "e", "f", "a", "c", "t", "o", "r", "_">>
           \o <<(<<"0", "1", "2", "3", "4", "5", "6", "7", "8", "9">>)[timestamp + 1]>> >>

\* the original the script refactors
test_code == <<"d", "e", "f">>

\* util_path.parent.mkdir(parents=True, exist_ok=True): the directories after
\* it, for the segments of util_name below cur
RECURSIVE MkdirParents(_, _, _)
MkdirParents(cur, segs, ds) ==
    IF Len(segs) <= 1 THEN ds
    ELSE IF Head(segs) \in {<<>>, Dot} THEN MkdirParents(cur, Tail(segs), ds)
    ELSE IF Head(segs) = DotDot THEN MkdirParents(Parent(cur), Tail(segs), ds)
    ELSE MkdirParents(Append(cur, Head(segs)), Tail(segs), ds \cup {Append(cur, Head(segs))})

\* for util_name, util_content in value.items(): len, mkdir, open, write, from
\* module i on; ok is FALSE where a module raised and the loop was left
RECURSIVE SaveModules(_, _, _, _)
SaveModules(items, i, base, st) ==
    IF i > Len(items) THEN st
    ELSE LET util_name == items[i].key
             util_content == items[i].val
             segs == SplitPath(util_name, <<>>)
             from == IF util_name # <<>> /\ Head(util_name) = "/" THEN <<>> ELSE base
             made == MkdirParents(from, segs, st.dirs)
             util_path == Walk(from, segs, made)
         IN IF LenRaises(util_content) THEN [st EXCEPT !.ok = FALSE]
            ELSE IF OpenRaises(util_path, made) THEN [st EXCEPT !.ok = FALSE, !.dirs = made]
            ELSE SaveModules(items, i + 1, base,
                     [ok |-> TRUE, dirs |-> made,
                      files |-> WriteFile(st.files, util_path.path, util_content.s),
                      wrote |-> st.wrote \cup {Event(util_path.path, "util", "payload")}])

\* entry: the OPENAI_API_KEY check, the four mkdir(exist_ok=True) and the
\* original written to before/test_main.py
TreeStart ==
    \E api_key \in BOOLEAN, timestamp \in {now, now + 1} :
        LET root == refactor_dir(timestamp)
            original_file == root \o <<<<"b", "e", "f", "o", "r", "e">>,
                                       <<"t", "e", "s", "t", "_", "m", "a", "i", "n", ".", "p", "y">>>>
        IN /\ pc = "idle"
           /\ runs < MaxRuns
           /\ start' = [files |-> files, dirs |-> dirs, logs |-> logs]
           /\ tried' = {}
           /\ answer' = NoAnswer
           /\ IF ~api_key
              THEN /\ Return("None", "no_api_key")
                   /\ run' = [NoRun EXCEPT !.variant = "tree"]
                   /\ wrote' = {}
                   /\ UNCHANGED <<files, dirs, now, original_content>>
              ELSE /\ now' = timestamp
                   /\ run' = [variant |-> "tree", preview |-> FALSE, backup |-> FALSE,
                              refactor_dir |-> root]
                   /\ dirs' = dirs \cup {root, Append(root, <<"b", "e", "f", "o", "r", "e">>),
                                         Append(root, <<"a", "f", "t", "e", "r">>),
                                         Append(root, Seg_utils)}
                   /\ original_content' = test_code
                   /\ files' = WriteFile(files, original_file, test_code)
                   /\ wrote' = {Event(original_file, "original", "original")}
                   /\ pc' = "t_agent"
                   /\ result' = Pending
           /\ UNCHANGED <<logs, runs, captured_output, parsed_response, util_idx, lab>>
\* the agent call, the search for the block, json.loads and
\* parsed_response.keys(); without a block the prompt to save the raw output
TreeAgent ==
    /\ pc = "t_agent"
    /\ \E raises \in BOOLEAN, t \in Transcripts, text \in Answers :
        IF raises
        THEN /\ Return("None", "agent_error")
             /\ UNCHANGED <<captured_output, parsed_response, util_idx, files, wrote, answer>>
        ELSE /\ captured_output' = t
             /\ IF json_start(t) = -1 \/ json_end(t) = -1
                THEN /\ Return("None", "no_json")
                     /\ answer' = [given |-> TRUE, text |-> text, interrupted |-> FALSE]
                     /\ IF accept(text)
                        THEN LET raw_file == Append(run.refactor_dir,
                                     <<"r", "a", "w", "_", "o", "u", "t", "p", "u", "t", ".", "t", "x", "t">>)
                             IN /\ files' = WriteFile(files, raw_file, t)
                                /\ wrote' = wrote \cup {Event(raw_file, "raw", "transcript")}
                        ELSE UNCHANGED <<files, wrote>>
                     /\ UNCHANGED <<parsed_response, util_idx>>
                ELSE IF ~loads(json_str(t)).ok
                THEN /\ Return("None", "json_error")
                     /\ UNCHANGED <<parsed_response, util_idx, files, wrote, answer>>
                ELSE /\ parsed_response' = loads(json_str(t)).val
                     /\ IF ItemsRaises(loads(json_str(t)).val)
                        THEN Return("None", "error") /\ UNCHANGED util_idx
                        ELSE pc' = "t_save" /\ util_idx' = 1 /\ UNCHANGED result
                     /\ UNCHANGED <<files, wrote, answer>>
    /\ UNCHANGED <<dirs, logs, now, runs, run, original_content, tried, start, lab>>

\* one turn of for key, value in parsed_response.items()
TreeSave ==
    LET items == parsed_response.m
        key == items[util_idx].key
        value == items[util_idx].val
        after_file == run.refactor_dir \o <<<<"a", "f", "t", "e", "r">>,
                                            <<"t", "e", "s", "t", "_", "m", "a", "i", "n", ".", "p", "y">>>>
        saved == SaveModules(value.m, 1, Append(run.refactor_dir, Seg_utils),
                             [ok |-> TRUE, dirs |-> dirs, files |-> files, wrote |-> wrote])
    IN
    /\ pc = "t_save"
    /\ IF util_idx > Len(items)
       THEN pc' = "t_log" /\ UNCHANGED <<files, dirs, wrote, util_idx, result>>
       ELSE IF key = K_utility_modules
       THEN IF ItemsRaises(value)
            THEN Return("None", "error") /\ UNCHANGED <<files, dirs, wrote, util_idx>>
            ELSE /\ files' = saved.files
                 /\ dirs' = saved.dirs
                 /\ wrote' = saved.wrote
                 /\ IF saved.ok THEN util_idx' = util_idx + 1 /\ UNCHANGED <<pc, result>>
                    ELSE Return("None", "error") /\ UNCHANGED util_idx
       ELSE IF LenRaises(value)
       THEN Return("None", "error") /\ UNCHANGED <<files, dirs, wrote, util_idx>>
       ELSE IF key # K_refactored_main
       THEN util_idx' = util_idx + 1 /\ UNCHANGED <<files, dirs, wrote, pc, result>>
       ELSE /\ wrote' = wrote \cup {Event(after_file, "after", "payload")}
            /\ IF WriteRaises(value)
               THEN /\ files' = WriteFile(files, after_file, <<>>)
                    /\ Return("None", "error")
                    /\ UNCHANGED util_idx
               ELSE /\ files' = WriteFile(files, after_file, value.s)
                    /\ util_idx' = util_idx + 1
                    /\ UNCHANGED <<pc, result>>
            /\ UNCHANGED dirs
    /\ UNCHANGED <<logs, now, runs, run, original_content, captured_output,
                   parsed_response, answer, tried, start, lab>>

\* log_refactor_output(parsed_response, refactor_dir) and return
TreeLog ==
    /\ pc = "t_log"
    /\ \E writable \in BOOLEAN, second \in {now, now + 1} :
        IF writable
        THEN LET timestamp == second \div SecondsPerMinute IN
             /\ now' = second
             /\ logs' = {l \in logs : ~(l.initiator = "test_called"
                                          /\ l.refactor_timestamp = timestamp)}
                           \cup {[initiator |-> "test_called", refactor_timestamp |-> timestamp,
                                  original_file |-> run.refactor_dir, run |-> runs + 1]}
             /\ Return("dict", "saved")
        ELSE /\ Return("None", "log_error")
             /\ UNCHANGED <<now, logs>>
    /\ UNCHANGED <<files, dirs, runs, run, original_content, captured_output,
                   parsed_response, util_idx, answer, wrote, tried, start, lab>>

SpecTree == Init /\ [][TreeStart \/ TreeAgent \/ TreeSave \/ TreeLog \/ Finish]_vars

(***************************************************************************)
(* api/main.py: the HTTP service in front of the agent.  Its state is the  *)
(* module's dictionaries (of the three, api_keys and active_sessions are   *)
(* written), the environment read with os.getenv, sys.stdout, and Stripe's *)
(* payment intents.  All of it is kept in lab:                             *)
(*   api_keys         key -> its key_info                                  *)
(*   active_sessions  session id -> the key of its request                 *)
(*   intents          Stripe's intents, an intent's id is its index        *)
(*   uuids            how many uuid4() values generate_api_key has drawn   *)
(*   sys_stdout       0 for the console, r for request r's StringIO        *)
(*   reqs             the refactor requests in the order of arrival, each  *)
(*                    with the locals of its handler and of its            *)
(*                    refactor_sync; a request's session id is its index   *)
(*   last             the answer given last: the endpoint, the status of   *)
(*                    the HTTPException the code raised (1 for another     *)
(*                    exception, 0 for none), the status answered, the key *)
(*                    the call carried, and the intent and event a         *)
(*                    successful payment call handled                      *)
(* The payment handlers are async functions without an await between their *)
(* reads and writes of api_keys, so each is one step of the event loop.    *)
(* A refactor request is three steps of the event loop (the dependency,    *)
(* the body up to its await, the rest) around refactor_sync, which runs on *)
(* a thread of thread_pool.  Time stamps (activated_at, last_used) are     *)
(* kept as "set or not"; created_at and started_at are written once and    *)
(* never compared, and expires_at is set by no handler.                    *)
(***************************************************************************)
MaxRequests == 2
MaxIntents == 1

\* thread_pool = ThreadPoolExecutor(max_workers=5)
max_workers == 5

InitApi ==
    /\ InitRuns
    /\ \E stripe_secret_key \in BOOLEAN, webhook_secret \in BOOLEAN,
          openai_api_key \in BOOLEAN :
           lab = [stage |-> "api",
                  stripe_api_key |-> stripe_secret_key,
                  webhook_secret |-> webhook_secret,
                  openai_api_key |-> openai_api_key,
                  api_keys |-> <<>>,
                  active_sessions |-> <<>>,
                  intents |-> <<>>,
                  uuids |-> 0,
                  sys_stdout |-> 0,
                  reqs |-> <<>>,
                  last |-> [endpoint |-> "none", raised |-> 0, status |-> 0,
                            api_key |-> 0, intent |-> 0, event |-> "none"]]

\* f"rfa_{uuid.uuid4().hex[:32]}": a value no earlier call returned; keys are
\* numbered in the order they are drawn, and 0 is a key that was never drawn
generate_api_key(drawn) == drawn + 1

\* a check that answers an unknown key as it answers an unpaid one
verify_unknown_as_unpaid(api_key) ==
    IF api_key \notin DOMAIN lab.api_keys THEN 402
    ELSE IF lab.api_keys[api_key].credits <= 0 THEN 402
    ELSE 200

\* a check that refuses a balance only once it is negative
verify_below_zero(api_key) ==
    IF api_key \notin DOMAIN lab.api_keys THEN 401
    ELSE IF lab.api_keys[api_key].credits < 0 THEN 402
    ELSE 200

\* the dependency of /refactor and /usage: the status of the HTTPException it
\* raises, 200 when it returns the key
verify_api_key(api_key) ==
    IF api_key \notin DOMAIN lab.api_keys THEN 401
    ELSE IF lab.api_keys[api_key].credits <= 0 THEN 402
    ELSE 200

\* POST /api/v1/payment/create-intent.  Every exception of the body, the
\* HTTPException 503 included, is caught at line 257 and answered as 500.
create_payment_intent ==
    /\ lab.stage = "api"
    /\ \E amount \in {100, 990}, stripe_answers \in BOOLEAN :
        LET credits_mapping == (990 :> 10) @@ (2990 :> 50) @@ (9990 :> 250)
            credits == IF amount \in DOMAIN credits_mapping THEN credits_mapping[amount]
                       ELSE amount \div 100
            metadata_key == generate_api_key(lab.uuids)
            api_key == generate_api_key(lab.uuids + 1)
            intent == Len(lab.intents) + 1
            raised == IF ~lab.stripe_api_key THEN 503 ELSE IF ~stripe_answers THEN 1 ELSE 0
        IN IF raised # 0
           THEN lab' = [lab EXCEPT !.last = [endpoint |-> "create-intent", raised |-> raised,
                                             status |-> 500, api_key |-> 0, intent |-> 0,
                                             event |-> "none"]]
           ELSE /\ Len(lab.intents) < MaxIntents
                /\ lab' = [lab EXCEPT
                       !.uuids = @ + 2,
                       !.intents = Append(@, [status |-> "requires_payment_method",
                                              api_key |-> metadata_key,
                                              credits |-> credits]),
                       !.api_keys = (api_key :> [credits |-> 0,
                                                 total_requests |-> 0,
                                                 last_used |-> FALSE,
                                                 payment_intent |-> intent,
                                                 pending_credits |-> credits,
                                                 status |-> "pending",
                                                 activated_at |-> FALSE]) @@ @,
                       !.last = [endpoint |-> "create-intent", raised |-> 0, status |-> 200,
                                 api_key |-> api_key, intent |-> intent, event |-> "none"]]
    /\ UNCHANGED <<files, dirs, logs, now, runs, pc, run, original_content, captured_output,
                   parsed_response, util_idx, answer, result, wrote, tried, start>>

\* the client pays with the client_secret: what stripe.PaymentIntent.retrieve
\* reports as intent.status from then on
PaymentSucceeds ==
    /\ lab.stage = "api"
    /\ \E i \in 1..Len(lab.intents) :
        /\ lab.intents[i].status # "succeeded"
        /\ lab' = [lab EXCEPT !.intents[i].status = "succeeded"]
    /\ UNCHANGED <<files, dirs, logs, now, runs, pc, run, original_content, captured_output,
                   parsed_response, util_idx, answer, result, wrote, tried, start>>

\* POST /api/v1/payment/confirm?api_key=..&payment_intent_id=..; intent 0 is
\* an id Stripe does not know (retrieve raises).  Every exception of the body
\* is caught at line 286 and answered as 500.
confirm_payment ==
    /\ lab.stage = "api"
    /\ \E api_key \in {0} \cup DOMAIN lab.api_keys, payment_intent_id \in 0..Len(lab.intents) :
        LET raised ==
                IF ~lab.stripe_api_key THEN 503
                ELSE IF payment_intent_id = 0 THEN 1
                ELSE IF lab.intents[payment_intent_id].status # "succeeded" THEN 400
                ELSE IF api_key \in DOMAIN lab.api_keys
                        /\ lab.api_keys[api_key].payment_intent = payment_intent_id THEN 0
                ELSE 400
        IN IF raised # 0
           THEN lab' = [lab EXCEPT !.last = [endpoint |-> "confirm", raised |-> raised,
                                             status |-> 500, api_key |-> 0, intent |-> 0,
                                             event |-> "none"]]
           ELSE lab' = [lab EXCEPT
                    !.api_keys[api_key].credits = lab.api_keys[api_key].pending_credits,
                    !.api_keys[api_key].status = "active",
                    !.api_keys[api_key].activated_at = TRUE,
                    !.last = [endpoint |-> "confirm", raised |-> 0, status |-> 200,
                              api_key |-> api_key, intent |-> payment_intent_id,
                              event |-> "none"]]
    /\ UNCHANGED <<files, dirs, logs, now, runs, pc, run, original_content, captured_output,
                   parsed_response, util_idx, answer, result, wrote, tried, start>>

\* POST /api/v1/payment/webhook.  A call carries no signature, a signature
\* that construct_event refuses, or an event Stripe signed: an event about
\* one of its intents, payment_intent.succeeded only for an intent that has
\* succeeded.  The metadata's "credits" is the decimal form of the number
\* and int() reads the number back.  Every exception of the body is caught at
\* line 437 and answered as 500.
stripe_webhook ==
    /\ lab.stage = "api"
    /\ \E signature \in {"none", "refused", "stripe"}, i \in 0..Len(lab.intents),
          type \in {"payment_intent.succeeded", "payment_intent.created"} :
        LET api_key == lab.intents[i].api_key
            credits == lab.intents[i].credits
            raised == IF signature = "none" THEN 400 ELSE IF signature = "refused" THEN 1 ELSE 0
        IN /\ IF signature = "stripe"
              THEN i > 0 /\ (type = "payment_intent.succeeded"
                                => lab.intents[i].status = "succeeded")
              ELSE i = 0 /\ type = "payment_intent.created"
           /\ IF ~lab.webhook_secret
              THEN lab' = [lab EXCEPT !.last = [endpoint |-> "webhook", raised |-> 0,
                                                status |-> 200, api_key |-> 0, intent |-> 0,
                                                event |-> "none"]]
              ELSE IF raised # 0
              THEN lab' = [lab EXCEPT !.last = [endpoint |-> "webhook", raised |-> raised,
                                                status |-> 500, api_key |-> 0, intent |-> 0,
                                                event |-> "none"]]
              ELSE IF type = "payment_intent.succeeded" /\ api_key \in DOMAIN lab.api_keys
              THEN lab' = [lab EXCEPT
                       !.api_keys[api_key].credits = credits,
                       !.api_keys[api_key].status = "active",
                       !.api_keys[api_key].activated_at = TRUE,
                       !.last = [endpoint |-> "webhook", raised |-> 0, status |-> 200,
                                 api_key |-> api_key, intent |-> i, event |-> type]]
              ELSE lab' = [lab EXCEPT
                       !.last = [endpoint |-> "webhook", raised |-> 0, status |-> 200,
                                 api_key |-> api_key, intent |-> i, event |-> type]]
    /\ UNCHANGED <<files, dirs, logs, now, runs, pc, run, original_content, captured_output,
                   parsed_response, util_idx, answer, result, wrote, tried, start>>

\* GET /api/v1/usage: the dependency, then the read of key_info
get_usage ==
    /\ lab.stage = "api"
    /\ \E api_key \in {0} \cup DOMAIN lab.api_keys :
        lab' = [lab EXCEPT !.last = [endpoint |-> "usage",
                                     raised |-> IF verify_api_key(api_key) = 200 THEN 0
                                                ELSE verify_api_key(api_key),
                                     status |-> verify_api_key(api_key),
                                     api_key |-> api_key, intent |-> 0, event |-> "none"]]
    /\ UNCHANGED <<files, dirs, logs, now, runs, pc, run, original_content, captured_output,
                   parsed_response, util_idx, answer, result, wrote, tried, start>>

\* POST /api/v1/refactor, the steps the event loop takes for one request:
\* Depends(verify_api_key), run before the body; the body from line 293 to
\* the await at 320; and the lines after the await, 323-333 or 337-341.  The
\* locals of a request that has been answered are gone.
refactor_code ==
    /\ lab.stage = "api"
    /\ LET local == [api_key |-> 0, pc |-> "answered", old_stdout |-> 0,
                     buffer |-> [text |-> <<>>, from |-> <<>>],
                     result |-> [ok |-> FALSE, val |-> JNull]]
           answer_of(api_key, raised, status) ==
               [endpoint |-> "refactor", raised |-> raised, status |-> status,
                api_key |-> api_key, intent |-> 0, event |-> "none"]
       IN
       \/ /\ Len(lab.reqs) < MaxRequests
          /\ \E api_key \in {0} \cup DOMAIN lab.api_keys :
              IF verify_api_key(api_key) = 200
              THEN lab' = [lab EXCEPT
                       !.reqs = Append(@, [local EXCEPT !.api_key = api_key,
                                                        !.pc = "admitted"])]
              ELSE lab' = [lab EXCEPT
                       !.reqs = Append(@, local),
                       !.last = answer_of(api_key, verify_api_key(api_key),
                                          verify_api_key(api_key))]
       \/ \E session_id \in 1..Len(lab.reqs), valid_type \in BOOLEAN :
              LET api_key == lab.reqs[session_id].api_key IN
              /\ lab.reqs[session_id].pc = "admitted"
              /\ IF ~lab.openai_api_key
                 THEN lab' = [lab EXCEPT !.reqs[session_id] = local,
                                         !.last = answer_of(api_key, 503, 503)]
                 ELSE lab' = [lab EXCEPT
                          !.api_keys[api_key].total_requests = @ + 1,
                          !.api_keys[api_key].credits = @ - 1,
                          !.api_keys[api_key].last_used = TRUE,
                          !.active_sessions = (session_id :> api_key) @@ @,
                          !.reqs[session_id] =
                              IF valid_type THEN [@ EXCEPT !.pc = "queued"] ELSE local,
                          !.last = IF valid_type THEN @ ELSE answer_of(api_key, 400, 400)]
       \/ \E session_id \in 1..Len(lab.reqs) :
              LET request == lab.reqs[session_id] IN
              /\ request.pc = "returned"
              /\ lab' = [lab EXCEPT
                     !.active_sessions = [s \in DOMAIN @ \ {session_id} |-> @[s]],
                     !.reqs[session_id] = local,
                     !.last = IF request.result.ok /\ request.result.val.k = "obj"
                              THEN answer_of(request.api_key, 0, 200)
                              ELSE answer_of(request.api_key, 1, 500)]
    /\ UNCHANGED <<files, dirs, logs, now, runs, pc, run, original_content, captured_output,
                   parsed_response, util_idx, answer, result, wrote, tried, start>>

\* refactor_sync on a thread of the pool: redirect_stdout's __enter__ (the
\* old sys.stdout is kept, sys.stdout becomes the request's buffer); the
\* agent's exchange printed to whatever sys.stdout is at that moment, or an
\* exception of the agent; __exit__ (sys.stdout becomes what was kept), then
\* getvalue(), the search for the block and json.loads.  A buffer is read
\* once, at getvalue(): what is printed to the console, or to the buffer of
\* a call that has returned, is read by nobody and is not kept.
refactor_sync ==
    /\ lab.stage = "api"
    /\ \E r \in 1..Len(lab.reqs) :
        LET request == lab.reqs[r]
            output == request.buffer.text
            found == json_start(output) # -1 /\ json_end(output) # -1
            exited == [request EXCEPT !.pc = "returned", !.old_stdout = 0,
                                      !.buffer = [text |-> <<>>, from |-> <<>>]]
        IN \/ /\ request.pc = "queued"
              /\ Cardinality({q \in 1..Len(lab.reqs) :
                                  lab.reqs[q].pc \in {"chat", "printed"}}) < max_workers
              /\ lab' = [lab EXCEPT !.reqs[r].pc = "chat",
                                    !.reqs[r].old_stdout = lab.sys_stdout,
                                    !.sys_stdout = r]
           \/ /\ request.pc = "chat"
              /\ \E reply \in {Fenced(PayloadMainOnly), Fenced(PayloadList), Prose} :
                  IF lab.sys_stdout = 0
                        \/ lab.reqs[lab.sys_stdout].pc \notin {"chat", "printed"}
                  THEN lab' = [lab EXCEPT !.reqs[r].pc = "printed"]
                  ELSE IF lab.sys_stdout = r
                  THEN lab' = [lab EXCEPT
                           !.reqs[r].pc = "printed",
                           !.reqs[r].buffer = [text |-> @.text \o reply,
                                               from |-> Append(@.from, r)]]
                  ELSE lab' = [lab EXCEPT
                           !.reqs[r].pc = "printed",
                           !.reqs[lab.sys_stdout].buffer =
                               [text |-> @.text \o reply, from |-> Append(@.from, r)]]
           \/ /\ request.pc = "chat"
              /\ lab' = [lab EXCEPT !.reqs[r] = exited,
                                    !.sys_stdout = request.old_stdout]
           \/ /\ request.pc = "printed"
              /\ lab' = [lab EXCEPT
                     !.reqs[r] = [exited EXCEPT !.result =
                                      IF found THEN loads(json_str(output))
                                      ELSE [ok |-> FALSE, val |-> JNull]],
                     !.sys_stdout = request.old_stdout]
    /\ UNCHANGED <<files, dirs, logs, now, runs, pc, run, original_content, captured_output,
                   parsed_response, util_idx, answer, result, wrote, tried, start>>

SpecApi ==
    InitApi /\ [][create_payment_intent \/ PaymentSucceeds \/ confirm_payment
                  \/ stripe_webhook \/ get_usage \/ refactor_code \/ refactor_sync]_vars

\* The service up to the hand-over of a request to the pool: what decides
\* whether a request is admitted.  refactor_sync reads and writes neither
\* api_keys nor active_sessions, so a request that is handed over (its pc is
\* "queued") stays there.
SpecAdmission ==
    InitApi /\ [][create_payment_intent \/ PaymentSucceeds \/ confirm_payment
                  \/ stripe_webhook \/ get_usage \/ refactor_code]_vars

(***************************************************************************)
(* The claims.                                                             *)
(***************************************************************************)
\* where the run's program keeps its backup
BackupOf(variant) == IF variant = "cli" THEN backup_path ELSE backup_file

WroteKind(kind) == \E e \in wrote : e.kind = kind

\* C1: in a run that keeps a backup, whenever the target has been opened for
\* overwriting, the backup file exists and holds the content the target had
\* when the run started (so a crash at any later point leaves the original
\* recoverable).
C1_BackupBeforeOverwrite ==
    (WroteKind("target") /\ (run.variant = "runner" \/ run.backup))
        => /\ BackupOf(run.variant) \in DOMAIN files
           /\ files[BackupOf(run.variant)] = original_content

\* C2: a run that ends because no structured block was found, or because the
\* isolated text does not parse, leaves files, directories and audit logs
\* exactly as it found them.
C2_FailureLeavesNoTrace ==
    (pc = "done" /\ result.msg \in {"no_json", "json_error", "parse_failed"})
        => /\ files = start.files
           /\ dirs = start.dirs
           /\ logs = start.logs

\* C3: every utility module a run writes lies strictly inside the utils
\* directory.
C3_UtilityWritesInsideRoot ==
    \A e \in wrote : e.kind = "util" => IsDescendant(e.path, utils_dir)

\* C4: a run in preview mode (preview_only, PREVIEW_MODE) opens no target,
\* backup or utility file for writing.
C4_PreviewWritesNothing == run.preview => wrote = {}

\* the explicit affirmatives: 'y' or 'yes' once trimmed and lower-cased
IsExplicitAffirmative(text) == lower(strip(text)) \in {<<"y">>, <<"y", "e", "s">>}

\* C5: at the prompt of run_refactor_agent, an answer that is not an explicit
\* affirmative ends the run as not applied with no target, backup or utility
\* file opened for writing; and a run that came to the prompt writes such a
\* file only after an explicit affirmative.
C5_OnlyAffirmativeMaterializes ==
    /\ (answer.given /\ ~IsExplicitAffirmative(answer.text))
           => (pc = "done" /\ result.msg = "not_applied" /\ wrote = {})
    /\ (run.variant = "runner" /\ run.preview /\ wrote # {})
           => (answer.given /\ IsExplicitAffirmative(answer.text))

\* C5 witness: the empty answer has been given and the run is over
C5_EmptyAnswerGiven ==
    answer.given /\ answer.text = <<>> /\ pc = "done" /\ result.msg = "not_applied"

\* C6: an interrupt at the prompt ends the run as cancelled: the function
\* returns (the interrupt does not leave it) and no target, backup or utility
\* file has been opened for writing.
C6_InterruptDiscards ==
    answer.interrupted
        => /\ pc = "done"
           /\ result = [ret |-> "None", msg |-> "cancelled"]
           /\ wrote = {}

\* C6 witness: the prompt was interrupted after the preview of a complete
\* payload
C6_Interrupted ==
    answer.interrupted /\ pc = "done" /\ HasKey(parsed_response, K_refactored_main)

\* C7: a run that has entered the loop over the utility modules ends only
\* after it has attempted every module of the payload.
C7_EveryUtilityAttempted ==
    (pc = "done" /\ tried # {})
        => tried = 1..Len(GetKey(parsed_response, K_utility_modules).m)

\* C8: once a payload without 'refactored_main' has been parsed, the run
\* opens no file for writing content of that payload.
C8_MissingMainRejected ==
    (parsed_response.k = "obj" /\ ~HasKey(parsed_response, K_refactored_main))
        => ~\E e \in wrote : e.src = "payload"

\* C9: for a transcript whose json block holds no fence marker of its own,
\* the extracted text is the text between the block's fences (without the
\* line breaks that set the fences on lines of their own).
C9_ExtractsFencedBlock ==
    (lab.stage \in {"extracted", "parsed"} /\ Occurrences(lab.json, Fence) = {})
        => lab.found /\ lab.text = lab.json

\* C10: a RefactorResult written as JSON, set in the only fenced block of a
\* transcript, extracted and parsed comes back equal to the original.
C10_RoundTrip ==
    (lab.stage = "parsed" /\ Occurrences(lab.prefix \o lab.suffix, Fence) = {})
        => lab.parsed.ok /\ lab.parsed.val = lab.value

\* C11: when the audit log cannot be written in a run that applies a complete
\* payload without asking, the run still ends with the primary file holding
\* 'refactored_main' and every utility module attempted.
C11_LogFailureKeepsMaterialization ==
    (pc = "done" /\ result.msg = "log_error" /\ ~run.preview /\ parsed_response = PayloadFull)
        => /\ files[BACKEND_FILE] = NewMain
           /\ tried = 1..Len(GetKey(parsed_response, K_utility_modules).m)

\* C12: an audit file, once written, is never overwritten or changed: every
\* audit entry that was on disk when the current run started is still there.
C12_AuditFilesKept == \A l \in start.logs : l \in logs

\* C13: a run that has opened the primary file for writing ends with an audit
\* entry of its own on disk (the logs directory being writable), whether its
\* writes succeeded or failed.
C13_EveryAttemptLogged ==
    (pc = "done" /\ WroteKind("target") /\ result.msg # "log_error")
        => \E l \in logs : l.run = runs + 1

\* C14: after an applied run (of run_refactor_agent, or of refactor_file with
\* its backup switched on) the backup file holds, character for character,
\* what the target held before the run, with or without a 'backup_file' field
\* in the payload.
C14_BackupIsOriginal ==
    (/\ pc = "done" /\ result.msg \in {"applied", "complete"} /\ WroteKind("target")
     /\ (run.variant = "runner" \/ run.backup))
        => /\ BackupOf(run.variant) \in DOMAIN files
           /\ files[BackupOf(run.variant)] = start.files[BACKEND_FILE]

\* the files beside the target whose name ends in .backup
BackupsBeside ==
    {p \in DOMAIN files : Parent(p) = Parent(BACKEND_FILE) /\ Suffix(p[Len(p)]) = DotBackup}

\* the current run is an applied refactor_file run with its backup on, the run
\* before it was one too (it left its backup, the rewritten target and its
\* audit entry), and no other program has written beside the target
SecondApplied ==
    /\ run.variant = "cli" /\ run.backup /\ pc = "done" /\ result.msg = "applied"
    /\ backup_path \in DOMAIN start.files
    /\ \E l \in start.logs : l.run = runs
    /\ \A l \in logs : l.initiator = "cli_called"

\* C16: after two consecutive applied runs of refactor_file on one target,
\* the only backup file beside the target is main.py.backup and it holds what
\* the target held when the second run started (last backup wins).
C16_LastBackupWins ==
    SecondApplied
        => /\ BackupsBeside = {backup_path}
           /\ files[backup_path] = start.files[BACKEND_FILE]

\* witness of C16: the second run has replaced what the first run backed up
C16_FirstBackupGone ==
    SecondApplied /\ start.files[backup_path] = OriginalSource
                  /\ files[backup_path] = NewMain

\* the payload names 'utility_modules' and its value is not a mapping
UtilsNotMapping ==
    /\ parsed_response.k = "obj" /\ HasKey(parsed_response, K_utility_modules)
    /\ GetKey(parsed_response, K_utility_modules).k # "obj"

\* C19: a payload without 'utility_modules' that is applied gives the primary
\* file and no utility module; a payload whose 'utility_modules' is not a
\* mapping ends the run as a failure with no file opened for writing.
C19_UtilityModulesField ==
    /\ (/\ pc = "done" /\ result.msg \in {"applied", "complete"} /\ parsed_response.k = "obj"
        /\ HasKey(parsed_response, K_refactored_main)
        /\ ~HasKey(parsed_response, K_utility_modules))
           => (WroteKind("target") /\ ~WroteKind("util") /\ tried = {})
    /\ UtilsNotMapping => wrote = {}
    /\ (UtilsNotMapping /\ pc \notin {"cli_preview", "r_preview"})
           => (pc = "done" /\ result.msg \in {"error", "exception"})

\* the transcript has been captured and searched, and it holds no brace and
\* no fence marker
SearchedNoBlock ==
    /\ run.variant # "none"
    /\ pc \notin {"cli_backup_open", "cli_backup_write", "cli_agent", "cli_parse",
                  "r_agent", "r_parse"}
    /\ result.msg \notin {"no_api_key", "agent_error", "agent_exception"}
    /\ \A i \in 1..Len(captured_output) : captured_output[i] \notin {"{", "}"}
    /\ Occurrences(captured_output, Fence) = {}

LeadingHint(name) == StartsAt(name, UtilsPrefix, 0)

\* the name without its leading hint
WithoutLeadingHint(name) ==
    IF LeadingHint(name) THEN SubSeq(name, Len(UtilsPrefix) + 1, Len(name)) ELSE name

\* C17: cleaning removes the leading 'utils/' of a name and nothing else, a
\* name without the leading hint stays as it is, and a name with the hint is
\* opened at utils_dir / <rest of the name>, strictly inside utils_dir.
C17_OnlyLeadingHintStripped ==
    \A i \in 1..2 :
        /\ lab.stage \in {"cleaned", "opened"}
               => lab.clean_name[i] = WithoutLeadingHint(lab.util_name[i])
        /\ (lab.stage = "opened" /\ LeadingHint(lab.util_name[i]))
               => /\ lab.util_file[i].ok
                  /\ lab.util_file[i].path
                         = utils_dir \o SplitPath(WithoutLeadingHint(lab.util_name[i]), <<>>)
                  /\ IsDescendant(lab.util_file[i].path, utils_dir)

\* C18: two distinct names of one utility_modules mapping are never opened
\* at the same destination path.
C18_DestinationsDistinct ==
    (lab.stage = "opened" /\ lab.util_file[1].ok /\ lab.util_file[2].ok)
        => lab.util_file[1].path # lab.util_file[2].path

\* C15: a timestamped-tree run works in a directory of its own: its output
\* directory did not exist when the run started, and no file it opens for
\* writing was there before the run.
C15_TreesDistinct ==
    (run.variant = "tree" /\ pc \notin {"idle", "done"})
        => /\ run.refactor_dir \notin start.dirs
           /\ \A e \in wrote : e.path \notin DOMAIN start.files

\* C21: no failure of the extraction, of the use of the payload, of a file
\* write or of the log write leaves refactor_file or run_refactor_agent as an
\* exception: every run that ends on such a failure ends with a return.  (A
\* failing agent call is not among the failures the claim lists.)
C21_FailuresAreReturned ==
    (pc = "done" /\ result.msg # "agent_exception") => result.ret # "raised"

\* C23: files are opened for writing (backup, target, utility files) only in
\* a run that asked for a decision and was given an affirmative one; a run
\* whose decision was a refusal or an interrupt has opened none.
C23_WritesOnlyAfterConfirm ==
    wrote # {} => (answer.given /\ accept(answer.text))

\* C22: what a request's buffer holds was printed by that request's own
\* agent exchange, so the transcript it reads back and parses is its own.
C22_TranscriptIsOwn ==
    \A r \in 1..Len(lab.reqs) :
        \A i \in 1..Len(lab.reqs[r].buffer.from) : lab.reqs[r].buffer.from[i] = r

\* a refactor request arrives in this step; the locals of its handler
Arrived == Len(lab'.reqs) = Len(lab.reqs) + 1
Arrival == lab'.reqs[Len(lab'.reqs)]

\* this step answers a /usage or /refactor request
Answered ==
    /\ lab'.last.endpoint \in {"usage", "refactor"}
    /\ lab'.last # lab.last \/ (Arrived /\ Arrival.pc = "answered")

\* C24: a /usage or /refactor request whose key is not in api_keys is
\* answered 401 and is never admitted, and the step that answers it leaves
\* api_keys (credits, request counts, last-used times) and active_sessions
\* as they were.
C24_UnknownKeyRejected ==
    [][/\ (Arrived /\ Arrival.pc = "admitted") => Arrival.api_key \in DOMAIN lab.api_keys
       /\ (Answered /\ lab'.last.api_key \notin DOMAIN lab.api_keys)
              => /\ lab'.last.status = 401
                 /\ lab'.api_keys = lab.api_keys
                 /\ lab'.active_sessions = lab.active_sessions]_vars

\* a refactor request with a key nobody issued was answered 401 while the
\* registry held keys
C24_UnknownKeyAnswered ==
    /\ lab.last.endpoint = "refactor"
    /\ lab.last.status = 401
    /\ lab.last.api_key \notin DOMAIN lab.api_keys
    /\ DOMAIN lab.api_keys # {}

\* C25: the key create-intent answers with is stored pending with zero
\* credits; a key that is pending has no credits, a request that carries it
\* is answered 402, and no such request is admitted (none reaches the agent).
C25_PendingKeyRejected ==
    /\ [](/\ (lab.last.endpoint = "create-intent" /\ lab.last.status = 200)
                 => /\ lab.api_keys[lab.last.api_key].status = "pending"
                    /\ lab.api_keys[lab.last.api_key].credits = 0
          /\ \A k \in DOMAIN lab.api_keys :
                 lab.api_keys[k].status = "pending" => lab.api_keys[k].credits = 0)
    /\ [][/\ (Arrived /\ Arrival.pc = "admitted")
                 => lab.api_keys[Arrival.api_key].status # "pending"
          /\ (/\ Answered
              /\ lab'.last.api_key \in DOMAIN lab.api_keys
              /\ lab.api_keys[lab'.last.api_key].status = "pending")
                 => lab'.last.status = 402]_vars

\* a refactor request was answered 402 for a key whose payment has succeeded
\* at Stripe and has not been confirmed to the service
C25_PaidKeyStillRejected ==
    /\ lab.last.endpoint = "refactor"
    /\ lab.last.status = 402
    /\ lab.last.api_key \in DOMAIN lab.api_keys
    /\ lab.api_keys[lab.last.api_key].status = "pending"
    /\ lab.intents[lab.api_keys[lab.last.api_key].payment_intent].status = "succeeded"

\* C26: once the webhook has handled payment_intent.succeeded for an intent,
\* the key that create-intent stored for that intent (the one the client was
\* given) is active, with the purchased credits as long as none was spent.
C26_WebhookActivatesClientKey ==
    (lab.last.endpoint = "webhook" /\ lab.last.event = "payment_intent.succeeded")
        => \A k \in DOMAIN lab.api_keys :
               lab.api_keys[k].payment_intent = lab.last.intent
                   => /\ lab.api_keys[k].status = "active"
                      /\ lab.api_keys[k].total_requests = 0
                             => lab.api_keys[k].credits = lab.api_keys[k].pending_credits

\* C27: a payment endpoint whose code raises HTTPException 400 or 503 answers
\* with that status.
C27_PaymentStatusKept ==
    (lab.last.endpoint \in {"create-intent", "confirm", "webhook"}
         /\ lab.last.raised \in {400, 503})
        => lab.last.status = lab.last.raised

\* C28: no key's credit balance is ever below zero.
C28_CreditsNeverNegative ==
    \A k \in DOMAIN lab.api_keys : lab.api_keys[k].credits >= 0

\* C29: a key's balance goes up only in the step that activates the pending
\* key: after that no confirm call and no webhook gives it credits again.
C29_CreditsGrantedOnce ==
    [][\A k \in DOMAIN lab.api_keys :
           lab'.api_keys[k].credits > lab.api_keys[k].credits
               => lab.api_keys[k].status = "pending"]_vars

\* C30: every session id in active_sessions belongs to a request that has
\* not been answered yet.
C30_SessionsAreInProgress ==
    \A s \in DOMAIN lab.active_sessions : lab.reqs[s].pc # "answered"
====
